---------------------------- MODULE Spec2Model ----------------------------
(***************************************************************************)
(* A model of ChordDetector (src/ChordDetector.py): the template table,    *)
(* the per-frame template-matching classifier, the sliding-window          *)
(* smoother, the run-length segmenter and the chord statistics.            *)
(*                                                                         *)
(* Conventions.                                                            *)
(*  - Python lists are TLA+ sequences; a Python index i (0-based) is the    *)
(*    TLA+ index i + 1.  Operators that take an index take the Python one. *)
(*  - The label the code writes for an unclassified frame is 'N/A' (the    *)
(*    specification's "unknown").                                          *)
(*  - Times are exact rationals: a time t seconds is kept as the integer   *)
(*    t * sr, so start_time = i * (hop_length / sr) is kept as             *)
(*    i * hop_length.  Floating-point rounding is not modelled.            *)
(*  - A Counter is the sequence of its (key, count) items in insertion     *)
(*    order, which is the order the code's most_common(1) scans.           *)
(***************************************************************************)
EXTENDS Integers, Sequences, FiniteSets, TLC

VARIABLES
    pc,               \* position of the driver in the sequence of calls
    chords,           \* argument of smooth_chord_progression (raw labels)
    window_size,      \* argument of smooth_chord_progression
    hop_length,       \* argument of get_chord_progression
    sr,               \* argument of get_chord_progression
    smoothed_chords,  \* value returned by smooth_chord_progression
    seg_chords,       \* argument of the last get_chord_progression call
    progression,      \* value returned by get_chord_progression
    chord_counts,     \* the Counter built by analyze_mp3
    n_frames,         \* chroma.shape[1] in detect_chords_from_chroma
    frame_idx,        \* loop variable of detect_chords_from_chroma
    frame_in,         \* the column chroma[:, frame_idx] as read
    frame_chroma,     \* the column after the normalisation step
    best_chord,       \* best_chord after the template loop
    best_score,       \* best_score after the template loop
    detected_chords,  \* the list detect_chords_from_chroma builds
    self_chord_templates,  \* the attribute self.chord_templates
    output_file,      \* the lines save_results_to_file wrote
    parsed_chords     \* the list parse_chord_output returns

vars == <<pc, chords, window_size, hop_length, sr, smoothed_chords, seg_chords,
          progression, chord_counts, n_frames, frame_idx, frame_in,
          frame_chroma, best_chord, best_score, detected_chords,
          self_chord_templates, output_file, parsed_chords>>

labelVars == <<chords, window_size, hop_length, sr, smoothed_chords,
               seg_chords, progression, chord_counts>>

frameVars == <<n_frames, frame_idx, frame_in, frame_chroma, best_chord,
               best_score, detected_chords>>

fileVars == <<output_file, parsed_chords>>

-----------------------------------------------------------------------------
(* Bounds of the model. *)

\* Longest label sequence enumerated.
MaxLen == 5

\* window_size ranges over the odd numbers 1, 3, ..., 2 * MaxHalfWindow + 1.
MaxHalfWindow == 2

\* Most columns of a chroma matrix.
MaxFrames == 2

\* Highest energy of an enumerated constant column.
MaxEnergy == 2

-----------------------------------------------------------------------------
(* Labels. *)

NA == "N/A"

\* Python's None (current_chord and best_chord before any assignment).
None == "None"

Max(a, b) == IF a >= b THEN a ELSE b

Min(a, b) == IF a <= b THEN a ELSE b

\* Python's lst[lo:hi] for 0 <= lo, hi <= len(lst).
Slice(lst, lo, hi) == SubSeq(lst, lo + 1, hi)

-----------------------------------------------------------------------------
(* collections.Counter, as far as the code uses it. *)

\* One c added to the counter cnt: an existing key keeps its place, a new
\* key goes last.
CounterAdd(cnt, c) ==
    IF \E k \in 1..Len(cnt) : cnt[k].key = c
    THEN [k \in 1..Len(cnt) |->
             IF cnt[k].key = c
             THEN [key |-> c, count |-> cnt[k].count + 1]
             ELSE cnt[k]]
    ELSE Append(cnt, [key |-> c, count |-> 1])

RECURSIVE CounterFrom(_, _)
\* The counter cnt after the elements of lst were added in order.
CounterFrom(cnt, lst) ==
    IF lst = << >> THEN cnt
    ELSE CounterFrom(CounterAdd(cnt, Head(lst)), Tail(lst))

\* A faulty filter that keeps 'N/A': C9 must tell it from NotNA.
KeepAll(lst) == lst

RECURSIVE NotNA(_)
\* [c for c in lst if c != 'N/A']
NotNA(lst) ==
    IF lst = << >> THEN << >>
    ELSE IF Head(lst) # NA THEN <<Head(lst)>> \o NotNA(Tail(lst))
    ELSE NotNA(Tail(lst))

\* Counter([c for c in lst if c != 'N/A'])
Counter(lst) == CounterFrom(<< >>, NotNA(lst))

RECURSIVE FirstMaxLast(_, _, _)
\* A faulty scan in which a later item of equal count replaces the best:
\* C3 must tell it from FirstMax.
FirstMaxLast(cnt, k, b) ==
    IF k > Len(cnt) THEN b
    ELSE FirstMaxLast(cnt, k + 1,
             IF cnt[k].count >= cnt[b].count THEN k ELSE b)

RECURSIVE FirstMax(_, _, _)
\* max(items, key = count) scanning from item k with the best item so far
\* at index b: a later item replaces it only when its count is greater.
FirstMax(cnt, k, b) ==
    IF k > Len(cnt) THEN b
    ELSE FirstMax(cnt, k + 1, IF cnt[k].count > cnt[b].count THEN k ELSE b)

\* cnt.most_common(1)[0][0] for a non-empty counter.
most_common(cnt) == cnt[FirstMax(cnt, 2, 1)].key

-----------------------------------------------------------------------------
(* smooth_chord_progression *)

\* A faulty window that ends one frame early (end_idx without the + 1):
\* C10 must tell it from SmoothAt.
SmoothAtShortEnd(lst, w, i) ==
    LET start_idx == Max(0, i - (w \div 2))
        end_idx == Min(Len(lst), i + (w \div 2))
        window_chords == Slice(lst, start_idx, end_idx)
        counts == Counter(window_chords)
    IN  IF counts # << >> THEN most_common(counts) ELSE NA

\* A faulty window that trails the frame instead of being centred on it:
\* C14 must tell it from SmoothAt.
SmoothAtTrailing(lst, w, i) ==
    LET start_idx == Max(0, i - w + 1)
        end_idx == Min(Len(lst), i + 1)
        window_chords == Slice(lst, start_idx, end_idx)
        counts == Counter(window_chords)
    IN  IF counts # << >> THEN most_common(counts) ELSE NA

\* The label appended for index i.
SmoothAt(lst, w, i) ==
    LET start_idx == Max(0, i - (w \div 2))
        end_idx == Min(Len(lst), i + (w \div 2) + 1)
        window_chords == Slice(lst, start_idx, end_idx)
        counts == Counter(window_chords)
    IN  IF counts # << >> THEN most_common(counts) ELSE NA

RECURSIVE SmoothLoopSkipNA(_, _, _, _)
\* A faulty loop without the else branch, which appends nothing for a
\* window that holds no chord: C2 must tell it from SmoothLoop.
SmoothLoopSkipNA(lst, w, i, acc) ==
    IF i >= Len(lst) THEN acc
    ELSE SmoothLoopSkipNA(lst, w, i + 1,
             IF SmoothAt(lst, w, i) # NA
             THEN Append(acc, SmoothAt(lst, w, i))
             ELSE acc)

RECURSIVE SmoothLoopOneMore(_, _, _, _)
\* A faulty loop over range(len(chords) + 1): C12 must tell it from
\* SmoothLoop.
SmoothLoopOneMore(lst, w, i, acc) ==
    IF i > Len(lst) THEN acc
    ELSE SmoothLoopOneMore(lst, w, i + 1, Append(acc, SmoothAt(lst, w, i)))

RECURSIVE SmoothLoop(_, _, _, _)
\* The loop over i in range(len(chords)), from index i with the list acc.
SmoothLoop(lst, w, i, acc) ==
    IF i >= Len(lst) THEN acc
    ELSE SmoothLoop(lst, w, i + 1, Append(acc, SmoothAt(lst, w, i)))

smooth_chord_progression(lst, w) == SmoothLoop(lst, w, 0, << >>)

-----------------------------------------------------------------------------
(* get_chord_progression *)

\* A faulty entry whose duration is its end time: C13 must tell it from
\* Segment.
SegmentDurationFromZero(chord, start_time, end_time) ==
    [chord |-> chord, start_time |-> start_time, end_time |-> end_time,
     duration |-> end_time]

\* A faulty entry with its two times exchanged: C17 must tell it from
\* Segment.
SegmentSwapped(chord, start_time, end_time) ==
    [chord |-> chord, start_time |-> end_time, end_time |-> start_time,
     duration |-> end_time - start_time]

\* A progression entry.  frame_duration = hop / rate, and every time is
\* kept multiplied by rate.
Segment(chord, start_time, end_time) ==
    [chord |-> chord, start_time |-> start_time, end_time |-> end_time,
     duration |-> end_time - start_time]

\* A faulty test without chord != 'N/A': C1 must tell it from
\* OpensSegment.
OpensSegmentAnyLabel(chord, current_chord) == chord # current_chord

\* The test of line 128 on the frame's label and current_chord.
OpensSegment(chord, current_chord) == chord # current_chord /\ chord # NA

\* A faulty time that counts frames from 1: C8 must tell it from
\* FrameTime.
FrameTimeFromOne(i, hop) == (i + 1) * hop

\* i * frame_duration, multiplied by the sample rate.
FrameTime(i, hop) == i * hop

\* A faulty test that takes a segment to be open from the start: C11 must
\* tell it from HasOpenSegment.
HasOpenSegmentAlways(current_chord) == TRUE

\* current_chord is not None (lines 129 and 142).
HasOpenSegment(current_chord) == current_chord # None

RECURSIVE SegmentLoop(_, _, _, _, _, _)
\* The loop over enumerate(chords) from index i, then the closing of the
\* last chord.
SegmentLoop(lst, hop, i, prog, current_chord, start_time) ==
    IF i >= Len(lst)
    THEN IF HasOpenSegment(current_chord)
         THEN Append(prog, Segment(current_chord, start_time,
                                   FrameTime(Len(lst), hop)))
         ELSE prog
    ELSE LET chord == lst[i + 1]
         IN  IF OpensSegment(chord, current_chord)
             THEN SegmentLoop(lst, hop, i + 1,
                      IF HasOpenSegment(current_chord)
                      THEN Append(prog, Segment(current_chord, start_time,
                                                FrameTime(i, hop)))
                      ELSE prog,
                      chord, FrameTime(i, hop))
             ELSE SegmentLoop(lst, hop, i + 1, prog, current_chord, start_time)

get_chord_progression(lst, hop) == SegmentLoop(lst, hop, 0, << >>, None, 0)

-----------------------------------------------------------------------------
(* The template table built by __init__. *)

\* Number of pitch classes: the length of every template and chroma column.
NPitch == 12

\* The keys of chord_templates in the order of the dict literal, which is
\* the order .items() iterates.
TemplateOrder ==
    <<"C", "C#", "D", "D#", "E", "F", "F#", "G", "G#", "A", "A#", "B",
      "Cm", "C#m", "Dm", "D#m", "Em", "Fm", "F#m", "Gm", "G#m", "Am", "A#m",
      "Bm">>

ChordNames == {TemplateOrder[k] : k \in 1..Len(TemplateOrder)}

\* Pitch class p is element p + 1 of a mask.
chord_templates ==
    [c \in ChordNames |->
        CASE c = "C"   -> <<1, 0, 0, 0, 1, 0, 0, 1, 0, 0, 0, 0>>
          [] c = "C#"  -> <<0, 1, 0, 0, 0, 1, 0, 0, 1, 0, 0, 0>>
          [] c = "D"   -> <<0, 0, 1, 0, 0, 0, 1, 0, 0, 1, 0, 0>>
          [] c = "D#"  -> <<0, 0, 0, 1, 0, 0, 0, 1, 0, 0, 1, 0>>
          [] c = "E"   -> <<0, 0, 0, 0, 1, 0, 0, 0, 1, 0, 0, 1>>
          [] c = "F"   -> <<1, 0, 0, 0, 0, 1, 0, 0, 0, 1, 0, 0>>
          [] c = "F#"  -> <<0, 1, 0, 0, 0, 0, 1, 0, 0, 0, 1, 0>>
          [] c = "G"   -> <<0, 0, 1, 0, 0, 0, 0, 1, 0, 0, 0, 1>>
          [] c = "G#"  -> <<1, 0, 0, 1, 0, 0, 0, 0, 1, 0, 0, 0>>
          [] c = "A"   -> <<0, 1, 0, 0, 1, 0, 0, 0, 0, 1, 0, 0>>
          [] c = "A#"  -> <<0, 0, 1, 0, 0, 1, 0, 0, 0, 0, 1, 0>>
          [] c = "B"   -> <<0, 0, 0, 1, 0, 0, 1, 0, 0, 0, 0, 1>>
          [] c = "Cm"  -> <<1, 0, 0, 1, 0, 0, 0, 1, 0, 0, 0, 0>>
          [] c = "C#m" -> <<0, 1, 0, 0, 1, 0, 0, 0, 1, 0, 0, 0>>
          [] c = "Dm"  -> <<0, 0, 1, 0, 0, 1, 0, 0, 0, 1, 0, 0>>
          [] c = "D#m" -> <<0, 0, 0, 1, 0, 0, 1, 0, 0, 0, 1, 0>>
          [] c = "Em"  -> <<0, 0, 0, 0, 1, 0, 0, 1, 0, 0, 0, 1>>
          [] c = "Fm"  -> <<1, 0, 0, 0, 0, 1, 0, 0, 1, 0, 0, 0>>
          [] c = "F#m" -> <<0, 1, 0, 0, 0, 0, 1, 0, 0, 1, 0, 0>>
          [] c = "Gm"  -> <<0, 0, 1, 0, 0, 0, 0, 1, 0, 0, 1, 0>>
          [] c = "G#m" -> <<0, 0, 0, 1, 0, 0, 0, 0, 1, 0, 0, 1>>
          [] c = "Am"  -> <<1, 0, 0, 0, 1, 0, 0, 0, 0, 1, 0, 0>>
          [] c = "A#m" -> <<0, 1, 0, 0, 0, 1, 0, 0, 0, 0, 1, 0>>
          [] c = "Bm"  -> <<0, 0, 1, 0, 0, 0, 1, 0, 0, 0, 0, 1>>]

-----------------------------------------------------------------------------
(* detect_chords_from_chroma: one column.                                  *)
(*                                                                         *)
(* A column is [num |-> a, den |-> d] with a an NPitch-tuple of naturals   *)
(* and d > 0: component p is the rational a[p + 1] / d.                    *)

RECURSIVE SumFrom(_, _)
SumFrom(a, k) == IF k > Len(a) THEN 0 ELSE a[k] + SumFrom(a, k + 1)

\* np.sum over a tuple of integers.
Sum(a) == SumFrom(a, 1)

RECURSIVE DotFrom(_, _, _)
DotFrom(a, b, k) ==
    IF k > Len(a) THEN 0 ELSE a[k] * b[k] + DotFrom(a, b, k + 1)

\* The inner product of two tuples of integers.
Dot(a, b) == DotFrom(a, b, 1)

\* A faulty normalisation without the test of the sum, which divides an
\* all-zero column by 0: C7 must tell it from NormalizeFrame.
NormalizeAlways(f) == [num |-> f.num, den |-> Sum(f.num)]

\* The normalisation step: np.sum(frame_chroma) > 0 is Sum(num) / den > 0,
\* and frame_chroma / np.sum(frame_chroma) has the components
\* (num[p] / den) / (Sum(num) / den) = num[p] / Sum(num).
NormalizeFrame(f) ==
    IF Sum(f.num) > 0 THEN [num |-> f.num, den |-> Sum(f.num)] ELSE f

\* A faulty initial best_score of 1, which no correlation exceeds: C4
\* must tell it from ScoreMinusOne.
ScorePlusOne == [nan |-> FALSE, n |-> 1, d2 |-> 1]

\* A correlation score is [nan |-> TRUE], or [nan |-> FALSE, n, d2] for the
\* real number n / sqrt(d2) with d2 > 0.
ScoreMinusOne == [nan |-> FALSE, n |-> -1, d2 |-> 1]

Threshold == [nan |-> FALSE, n |-> 1, d2 |-> 4]

\* a > b for two scores that are numbers.
ScoreGT(a, b) ==
    CASE a.n >= 0 /\ b.n < 0  -> TRUE
      [] a.n < 0 /\ b.n >= 0  -> FALSE
      [] a.n >= 0 /\ b.n >= 0 -> a.n * a.n * b.d2 > b.n * b.n * a.d2
      [] OTHER                -> a.n * a.n * b.d2 < b.n * b.n * a.d2

\* np.corrcoef(x, t)[0, 1] for the column x and the mask t: Pearson's
\*   (N*Sxt - Sx*St) / sqrt((N*Sxx - Sx^2) * (N*Stt - St^2))
\* over the N = NPitch components.  The column's denominator den > 0
\* divides the numerator once and the radicand twice, so it cancels.  The
\* quotient is nan exactly when one of the two variances is 0.
corrcoef(x, t) ==
    LET cxt == NPitch * Dot(x.num, t) - Sum(x.num) * Sum(t)
        vx == NPitch * Dot(x.num, x.num) - Sum(x.num) * Sum(x.num)
        vt == NPitch * Dot(t, t) - Sum(t) * Sum(t)
    IN  IF vx * vt = 0 THEN [nan |-> TRUE]
        ELSE [nan |-> FALSE, n |-> cxt, d2 |-> vx * vt]

\* A faulty test with >= for >, under which the template evaluated later
\* wins a tie: C5 must tell it from Improves.
ImprovesOrTies(score, best) == ~score.nan /\ ~ScoreGT(best, score)

\* The test of line 89: not np.isnan(score) and score > best_score.
Improves(score, best) == ~score.nan /\ ScoreGT(score, best)

RECURSIVE TemplateLoop(_, _, _)
\* The loop over chord_templates.items() from item k, with
\* best = [chord |-> best_chord, score |-> best_score].
TemplateLoop(x, k, best) ==
    IF k > Len(TemplateOrder) THEN best
    ELSE LET chord_name == TemplateOrder[k]
             score == corrcoef(x, chord_templates[chord_name])
             next == IF Improves(score, best.score)
                     THEN [chord |-> chord_name, score |-> score]
                     ELSE best
         IN  \* The test has TLC evaluate next before it recurses.
             CASE next.chord \in ChordNames \cup {None} ->
                      TemplateLoop(x, k + 1, next)

\* best_chord and best_score after the template loop for the column x.
BestMatch(x) == TemplateLoop(x, 1, [chord |-> None, score |-> ScoreMinusOne])

\* A faulty label with >= 0.5 for > 0.5: C6 must tell it from FrameLabel.
FrameLabelAtLeast(best) ==
    IF ~ScoreGT(Threshold, best.score) THEN best.chord ELSE NA

\* The label appended at line 93.
FrameLabel(best) == IF ScoreGT(best.score, Threshold) THEN best.chord ELSE NA

-----------------------------------------------------------------------------
(* Inputs. *)

\* The labels the enumerated sequences are built from.
LabelAlphabet == {"C", "G", "Am", NA}

SeqsUpTo(S, n) == UNION {[1..k -> S] : k \in 0..n}

\* Label sequences longer than MaxLen that are enumerated as well.
ScenarioSeqs == {<<"C", "C", "C", NA, "C", "G", "G">>}

LabelSeqs == SeqsUpTo(LabelAlphabet, MaxLen) \cup ScenarioSeqs

OddWindows == {2 * h + 1 : h \in 0..MaxHalfWindow}

\* <<hop_length, sr>>: the defaults of get_chord_progression, and a frame
\* duration of 0.1 s.
Rates == {<<512, 22050>>, <<1, 10>>}

\* The column with energy 1 on the pitch classes of S and 0 elsewhere.
NoteFrame(S) ==
    [num |-> [k \in 1..NPitch |-> IF (k - 1) \in S THEN 1 ELSE 0], den |-> 1]

\* Every template's mask as a column, as it is (den 1) and scaled to sum 1
\* (den 3: three components of 1/3).
MaskFrames ==
    {[num |-> chord_templates[c], den |-> d] : c \in ChordNames, d \in {1, 3}}

\* One or two pitch classes sounding with equal energy.
NoteFrames ==
    {NoteFrame({p, q}) : p \in 0..(NPitch - 1), q \in 0..(NPitch - 1)}

ConstantFrames ==
    {[num |-> [k \in 1..NPitch |-> e], den |-> 1] : e \in 0..MaxEnergy}

\* Columns of unequal energies: the first has correlation exactly 1/2 with
\* its best template, the others lie next to it on either side.
WeightedFrames ==
    {[num |-> a, den |-> 1] :
        a \in {<<1, 0, 1, 0, 2, 3, 0, 3, 0, 0, 2, 0>>,
               <<1, 0, 1, 0, 3, 3, 0, 3, 0, 0, 2, 0>>,
               <<1, 0, 1, 0, 2, 3, 0, 2, 0, 0, 2, 0>>,
               <<0, 1, 1, 1, 0, 1, 1, 0, 1, 1, 1, 1>>}}

FrameSet == MaskFrames \cup NoteFrames \cup ConstantFrames \cup WeightedFrames

\* The labels of a ten-column matrix whose first five columns are C major
\* and whose last five are G major.
ScenarioLabels == <<"C", "C", "C", "C", "C", "G", "G", "G", "G", "G">>

\* The columns such a matrix is made of.
ScenarioFrames ==
    {[num |-> chord_templates[c], den |-> 1] : c \in {"C", "G"}}

\* The columns a matrix of n columns is drawn from: every enumerated column
\* for a short matrix, the scenario's columns for a longer one.
ColumnsFor(n) == IF n <= MaxFrames THEN FrameSet ELSE ScenarioFrames

\* The value of frame_in and frame_chroma before a column was read.
NoFrame == [num |-> << >>, den |-> 1]

-----------------------------------------------------------------------------
(* The calls on label sequences. *)

\* The label variables before any call: no sequence, and the defaults of
\* window_size, hop_length and sr.
LabelIdle ==
    /\ chords = << >>
    /\ window_size = 5
    /\ hop_length = 512
    /\ sr = 22050
    /\ smoothed_chords = << >>
    /\ seg_chords = << >>
    /\ progression = << >>
    /\ chord_counts = << >>

\* The detector after __init__ and before anything was written or parsed.
ObjectIdle ==
    /\ self_chord_templates = chord_templates
    /\ output_file = << >>
    /\ parsed_chords = << >>

FrameIdle ==
    /\ n_frames = 0
    /\ frame_idx = 0
    /\ frame_in = NoFrame
    /\ frame_chroma = NoFrame
    /\ best_chord = None
    /\ best_score = ScoreMinusOne
    /\ detected_chords = << >>

Init ==
    /\ pc = "start"
    /\ chords \in LabelSeqs
    /\ window_size = 5
    /\ hop_length = 512
    /\ sr = 22050
    /\ smoothed_chords = << >>
    /\ seg_chords = << >>
    /\ progression = << >>
    /\ chord_counts = << >>
    /\ FrameIdle
    /\ ObjectIdle

\* smoothed_chords = self.smooth_chord_progression(raw_chords, w)
Smooth ==
    /\ pc = "start"
    /\ \E w \in OddWindows :
          /\ window_size' = w
          /\ smoothed_chords' = smooth_chord_progression(chords, w)
    /\ pc' = "smoothed"
    /\ UNCHANGED <<chords, hop_length, sr, seg_chords, progression,
                   chord_counts>>
    /\ UNCHANGED frameVars
    /\ UNCHANGED <<self_chord_templates, fileVars>>

\* progression = self.get_chord_progression(smoothed_chords, hop, rate)
GetProgression ==
    /\ pc = "smoothed"
    /\ \E r \in Rates :
          /\ hop_length' = r[1]
          /\ sr' = r[2]
          /\ progression' = get_chord_progression(smoothed_chords, r[1])
    /\ seg_chords' = smoothed_chords
    /\ pc' = "segmented"
    /\ UNCHANGED <<chords, window_size, smoothed_chords, chord_counts>>
    /\ UNCHANGED frameVars
    /\ UNCHANGED <<self_chord_templates, fileVars>>

\* get_chord_progression called on a label sequence that was not smoothed.
GetProgressionRaw ==
    /\ pc = "start"
    /\ \E r \in Rates :
          /\ hop_length' = r[1]
          /\ sr' = r[2]
          /\ progression' = get_chord_progression(chords, r[1])
    /\ seg_chords' = chords
    /\ pc' = "segmented_raw"
    /\ UNCHANGED <<chords, window_size, smoothed_chords, chord_counts>>
    /\ UNCHANGED frameVars
    /\ UNCHANGED <<self_chord_templates, fileVars>>

\* A faulty count over the labels as detected, before smoothing: C18 must
\* tell it from CountChords.
CountChordsRaw ==
    /\ pc = "segmented"
    /\ chord_counts' = Counter(chords)
    /\ pc' = "done"
    /\ UNCHANGED <<chords, window_size, hop_length, sr, smoothed_chords,
                   seg_chords, progression>>
    /\ UNCHANGED frameVars
    /\ UNCHANGED <<self_chord_templates, fileVars>>

\* chord_counts = Counter([c for c in smoothed_chords if c != 'N/A'])
CountChords ==
    /\ pc = "segmented"
    /\ chord_counts' = Counter(smoothed_chords)
    /\ pc' = "done"
    /\ UNCHANGED <<chords, window_size, hop_length, sr, smoothed_chords,
                   seg_chords, progression>>
    /\ UNCHANGED frameVars
    /\ UNCHANGED <<self_chord_templates, fileVars>>

Next == Smooth \/ GetProgression \/ GetProgressionRaw \/ CountChords

Spec == Init /\ [][Next]_vars

-----------------------------------------------------------------------------
(* detect_chords_from_chroma on a matrix whose columns are read one by one. *)

InitDetect ==
    /\ pc = "detect"
    /\ n_frames \in 0..MaxFrames
    /\ frame_idx = 0
    /\ frame_in = NoFrame
    /\ frame_chroma = NoFrame
    /\ best_chord = None
    /\ best_score = ScoreMinusOne
    /\ detected_chords = << >>
    /\ LabelIdle
    /\ ObjectIdle

\* The body of the loop over range(n_frames) for the column f: the column
\* after the normalisation step, best_chord and best_score after the
\* template loop, and the label appended.
DetectFrame(f) ==
    LET x == NormalizeFrame(f)
        best == BestMatch(x)
    IN  [frame_chroma |-> x, best_chord |-> best.chord,
         best_score |-> best.score, label |-> FrameLabel(best)]

\* DetectFrame on every enumerated column, evaluated once.
Detected == [f \in FrameSet |-> DetectFrame(f)]

\* A faulty turn that scales the templates in place while it matches them:
\* C15 must tell it from ClassifyFrame.
ClassifyFrameWritesTable ==
    /\ pc = "detect"
    /\ frame_idx < n_frames
    /\ \E f \in ColumnsFor(n_frames) :
          /\ frame_in' = f
          /\ frame_chroma' = Detected[f].frame_chroma
          /\ best_chord' = Detected[f].best_chord
          /\ best_score' = Detected[f].best_score
          /\ detected_chords' = Append(detected_chords, Detected[f].label)
    /\ frame_idx' = frame_idx + 1
    /\ self_chord_templates' =
           [c \in DOMAIN self_chord_templates |->
               [k \in 1..NPitch |-> 3 * self_chord_templates[c][k]]]
    /\ UNCHANGED <<pc, n_frames>>
    /\ UNCHANGED labelVars
    /\ UNCHANGED fileVars

\* One turn of the loop over range(n_frames), for a column f.  The loop
\* reads self.chord_templates and assigns nothing to it; the table it reads
\* is chord_templates, which the attribute holds since __init__.
ClassifyFrame ==
    /\ pc = "detect"
    /\ frame_idx < n_frames
    /\ \E f \in ColumnsFor(n_frames) :
          /\ frame_in' = f
          /\ frame_chroma' = Detected[f].frame_chroma
          /\ best_chord' = Detected[f].best_chord
          /\ best_score' = Detected[f].best_score
          /\ detected_chords' = Append(detected_chords, Detected[f].label)
    /\ frame_idx' = frame_idx + 1
    /\ UNCHANGED <<pc, n_frames>>
    /\ UNCHANGED labelVars
    /\ UNCHANGED <<self_chord_templates, fileVars>>

\* return detected_chords
ReturnDetected ==
    /\ pc = "detect"
    /\ frame_idx >= n_frames
    /\ pc' = "detected"
    /\ UNCHANGED frameVars
    /\ UNCHANGED labelVars
    /\ UNCHANGED <<self_chord_templates, fileVars>>

NextDetect == ClassifyFrame \/ ReturnDetected

SpecDetect == InitDetect /\ [][NextDetect]_vars

-----------------------------------------------------------------------------
(* analyze_mp3 from the chroma matrix on: detect, smooth, segment, count. *)

InitAnalyze ==
    /\ pc = "detect"
    /\ n_frames \in (0..MaxFrames) \cup {Len(ScenarioLabels)}
    /\ frame_idx = 0
    /\ frame_in = NoFrame
    /\ frame_chroma = NoFrame
    /\ best_chord = None
    /\ best_score = ScoreMinusOne
    /\ detected_chords = << >>
    /\ LabelIdle
    /\ ObjectIdle

\* smoothed_chords = self.smooth_chord_progression(raw_chords), raw_chords
\* being the list detect_chords_from_chroma returned; the locals of that
\* call are gone.
AnalyzeSmooth ==
    /\ pc = "detected"
    /\ chords' = detected_chords
    /\ window_size' = 5
    /\ smoothed_chords' = smooth_chord_progression(detected_chords, 5)
    /\ pc' = "smoothed"
    /\ frame_in' = NoFrame
    /\ frame_chroma' = NoFrame
    /\ best_chord' = None
    /\ best_score' = ScoreMinusOne
    /\ UNCHANGED <<hop_length, sr, seg_chords, progression, chord_counts>>
    /\ UNCHANGED <<n_frames, frame_idx, detected_chords>>
    /\ UNCHANGED <<self_chord_templates, fileVars>>

\* progression = self.get_chord_progression(smoothed_chords)
AnalyzeProgression ==
    /\ pc = "smoothed"
    /\ hop_length' = 512
    /\ sr' = 22050
    /\ progression' = get_chord_progression(smoothed_chords, 512)
    /\ seg_chords' = smoothed_chords
    /\ pc' = "segmented"
    /\ UNCHANGED <<chords, window_size, smoothed_chords, chord_counts>>
    /\ UNCHANGED frameVars
    /\ UNCHANGED <<self_chord_templates, fileVars>>

NextAnalyze ==
    \/ ClassifyFrame
    \/ ReturnDetected
    \/ AnalyzeSmooth
    \/ AnalyzeProgression
    \/ CountChords

SpecAnalyze == InitAnalyze /\ [][NextAnalyze]_vars

-----------------------------------------------------------------------------
(* save_results_to_file (src/utils/save_to_output.py) and                  *)
(* GuitarPlayback.parse_chord_output (src/guitar_playback.py).             *)
(*                                                                         *)
(* A Python str is the sequence of its characters, each a one-character    *)
(* string; the two section headings, which the code writes and matches as  *)
(* literals, and the sentence written for an empty progression are kept as *)
(* one element each.  The file is modelled from the progression heading to *)
(* the frequency heading: parse_chord_output reads nothing after it.       *)

\* Most labels of a sequence whose progression is written to the file.
MaxFileLen == 2

Newline == "\n"

\* The literal of line 59 of save_to_output.py and line 68 of
\* guitar_playback.py.
ProgressionHeading == "CHORD PROGRESSION:"

\* The literal of line 74 of save_to_output.py, whose first character the
\* lookahead of line 68 of guitar_playback.py tests.
FrequencyHeading == "CHORD FREQUENCY:"

NoProgressionText == "No clear chord progression detected."

DigitChars == <<"0", "1", "2", "3", "4", "5", "6", "7", "8", "9">>

\* The class \d.
Digit == {DigitChars[k] : k \in 1..10}

\* The class \s, as far as the file holds such characters.
Whitespace == {" ", Newline}

\* The class \w, as far as ASCII goes.
WordChar ==
    {"A", "B", "C", "D", "E", "F", "G", "H", "I", "J", "K", "L", "M", "N",
     "O", "P", "Q", "R", "S", "T", "U", "V", "W", "X", "Y", "Z",
     "a", "b", "c", "d", "e", "f", "g", "h", "i", "j", "k", "l", "m", "n",
     "o", "p", "q", "r", "s", "t", "u", "v", "w", "x", "y", "z", "_"}
    \cup Digit

\* The characters of the names of the 12 pitch classes.
NoteChars ==
    <<<<"C">>, <<"C", "#">>, <<"D">>, <<"D", "#">>, <<"E">>, <<"F">>,
      <<"F", "#">>, <<"G">>, <<"G", "#">>, <<"A">>, <<"A", "#">>, <<"B">>>>

\* The characters of the k-th identifier of the template table.
SpellAt(k) ==
    NoteChars[((k - 1) % NPitch) + 1]
        \o (IF k > NPitch THEN <<"m">> ELSE << >>)

\* The characters of a chord identifier.
Spell(c) == SpellAt(CHOOSE k \in 1..Len(TemplateOrder) : TemplateOrder[k] = c)

RECURSIVE JoinFrom(_, _)
JoinFrom(s, k) == IF k > Len(s) THEN "" ELSE s[k] \o JoinFrom(s, k + 1)

\* The str with the characters s.
Join(s) == JoinFrom(s, 1)

\* n copies of the character ch.
Repeat(ch, n) == [k \in 1..n |-> ch]

RECURSIVE ToDigits(_)
\* The decimal digits of n >= 0.
ToDigits(n) ==
    IF n < 10 THEN <<DigitChars[n + 1]>>
    ELSE Append(ToDigits(n \div 10), DigitChars[(n % 10) + 1])

\* f"{n:0wd}"
ZeroPadded(n, w) ==
    LET d == ToDigits(n) IN Repeat("0", Max(0, w - Len(d))) \o d

\* f"{n:wd}"
RightAligned(n, w) ==
    LET d == ToDigits(n) IN Repeat(" ", Max(0, w - Len(d))) \o d

\* f"{s:ws}"
LeftAligned(s, w) == s \o Repeat(" ", Max(0, w - Len(s)))

\* f"{s:^w}"
Centered(s, w) ==
    LET pad == Max(0, w - Len(s))
    IN  Repeat(" ", pad \div 2) \o s \o Repeat(" ", pad - (pad \div 2))

\* format_time of the time t / rate seconds.
format_time(t, rate) ==
    LET whole == t \div rate
        minutes == whole \div 60
        secs == whole % 60
        milliseconds == ((t % rate) * 1000) \div rate
    IN  ZeroPadded(minutes, 2) \o <<":">> \o ZeroPadded(secs, 2) \o <<".">>
            \o ZeroPadded(milliseconds, 3)

\* The line of line 68 for the i-th entry (i from 1), with its newline.
ChordLine(i, entry, rate) ==
    RightAligned(i, 2) \o <<".", " ">> \o LeftAligned(Spell(entry.chord), 4)
        \o <<" ", "|", " ">> \o format_time(entry.start_time, rate)
        \o <<" ", "-", " ">> \o format_time(entry.end_time, rate)
        \o <<" ", "|", " ">>
        \o <<"D", "u", "r", "a", "t", "i", "o", "n", ":", " ">>
        \o format_time(entry.duration, rate)
        \o <<Newline>>

RECURSIVE ChordLines(_, _, _)
\* The lines of the loop of lines 63-68 from entry i on.
ChordLines(prog, rate, i) ==
    IF i > Len(prog) THEN << >>
    ELSE ChordLine(i, prog[i], rate) \o ChordLines(prog, rate, i + 1)

RECURSIVE TimelineFrom(_, _)
TimelineFrom(prog, i) ==
    IF i > Len(prog) THEN << >>
    ELSE Repeat("-", 5) \o <<"|">> \o TimelineFrom(prog, i + 1)

RECURSIVE ChordLabelsFrom(_, _)
ChordLabelsFrom(prog, i) ==
    IF i > Len(prog) THEN << >>
    ELSE Centered(Spell(prog[i].chord), 6) \o ChordLabelsFrom(prog, i + 1)

\* create_chord_timeline for a progression that is not empty.
create_chord_timeline(prog) ==
    <<"|">> \o TimelineFrom(prog, 1) \o <<Newline>> \o ChordLabelsFrom(prog, 1)

\* What lines 59-74 of save_results_to_file write.
ProgressionSection(prog, rate) ==
    <<ProgressionHeading, Newline>> \o Repeat("-", 50) \o <<Newline>>
        \o (IF prog # << >>
            THEN ChordLines(prog, rate, 1) \o <<Newline>>
                     \o create_chord_timeline(prog) \o <<Newline, Newline>>
            ELSE <<NoProgressionText, Newline, Newline>>)
        \o <<FrequencyHeading, Newline>>

\* The character at position p of t is ch.
At(t, p, ch) == p <= Len(t) /\ t[p] = ch

\* The literal lit stands at position p of t.
LiteralAt(t, p, lit) == \A k \in 1..Len(lit) : At(t, p + k - 1, lit[k])

\* The position after the longest run of characters of class that begins
\* at p: where a greedy class* or class+ stops when what follows it in the
\* pattern cannot begin with a character of the class.
RunEnd(t, p, class) ==
    CHOOSE q \in p..(Len(t) + 1) :
        /\ q = Len(t) + 1 \/ t[q] \notin class
        /\ \A k \in p..(q - 1) : t[k] \in class

\* \d{2}:\d{2}\.\d{3} stands at position p.
TimeAt(t, p) ==
    /\ p + 8 <= Len(t)
    /\ \A k \in {0, 1, 3, 4, 6, 7, 8} : t[p + k] \in Digit
    /\ t[p + 2] = ":"
    /\ t[p + 5] = "."

\* The value of the digit ch.
DigitValue(ch) == CHOOSE d \in 0..9 : DigitChars[d + 1] = ch

\* parse_time of the 9 characters at p, in milliseconds.
parse_time(t, p) ==
    LET minutes == 10 * DigitValue(t[p]) + DigitValue(t[p + 1])
        seconds == 10 * DigitValue(t[p + 3]) + DigitValue(t[p + 4])
        milliseconds == 100 * DigitValue(t[p + 6]) + 10 * DigitValue(t[p + 7])
                            + DigitValue(t[p + 8])
    IN  (minutes * 60 + seconds) * 1000 + milliseconds

NoMatch == [ok |-> FALSE]

\* The match of chord_pattern (line 76) that begins at position p, if there
\* is one: the position after it and the entry lines 79-89 build from its
\* groups.  \w+(?:m)? followed by \s+ matches the longest run of \w and
\* nothing else, as 'm' is itself in \w.
MatchChordPattern(t, p) ==
    LET d1 == RunEnd(t, p, Whitespace)
        d2 == RunEnd(t, d1, Digit)
        w1 == RunEnd(t, d2 + 1, Whitespace)
        w2 == RunEnd(t, w1, WordChar)
        b1 == RunEnd(t, w2, Whitespace)
        t1 == RunEnd(t, b1 + 1, Whitespace)
        m1 == RunEnd(t, t1 + 9, Whitespace)
        t2 == RunEnd(t, m1 + 1, Whitespace)
        b2 == RunEnd(t, t2 + 9, Whitespace)
        l1 == RunEnd(t, b2 + 1, Whitespace)
        t3 == RunEnd(t, l1 + 9, Whitespace)
    IN  IF /\ d2 > d1
           /\ At(t, d2, ".")
           /\ w1 > d2 + 1
           /\ w2 > w1
           /\ b1 > w2
           /\ At(t, b1, "|")
           /\ t1 > b1 + 1
           /\ TimeAt(t, t1)
           /\ m1 > t1 + 9
           /\ At(t, m1, "-")
           /\ t2 > m1 + 1
           /\ TimeAt(t, t2)
           /\ b2 > t2 + 9
           /\ At(t, b2, "|")
           /\ l1 > b2 + 1
           /\ LiteralAt(t, l1, <<"D", "u", "r", "a", "t", "i", "o", "n", ":">>)
           /\ t3 > l1 + 9
           /\ TimeAt(t, t3)
        THEN [ok |-> TRUE, end |-> t3 + 9,
              entry |-> [chord |-> Join(SubSeq(t, w1, w2 - 1)),
                         start_time |-> parse_time(t, t1),
                         end_time |-> parse_time(t, t2),
                         duration |-> parse_time(t, t3)]]
        ELSE NoMatch

RECURSIVE FindChords(_, _, _, _)
\* re.finditer(chord_pattern, ...) from position p on, starts being the
\* positions at which the pattern matches: the leftmost match, then the
\* matches after its end.
FindChords(t, starts, p, found) ==
    LET later == {q \in starts : q >= p}
    IN  IF later = {} THEN found
        ELSE LET first == CHOOSE q \in later : \A r \in later : q <= r
                 m == MatchChordPattern(t, first)
             IN  FindChords(t, starts, m.end, Append(found, m.entry))

\* The lookahead of line 68 holds at position p: a newline and '|', a
\* newline and the frequency heading, or the end of the text.
SectionStops(t, p) ==
    \/ p = Len(t) + 1
    \/ /\ t[p] = Newline
       /\ p + 1 <= Len(t)
       /\ t[p + 1] \in {"|", FrequencyHeading}

\* Where the lazy group of line 68 stops: the first position from p on at
\* which the lookahead holds.
SectionEnd(t, p) ==
    CHOOSE q \in p..(Len(t) + 1) :
        /\ SectionStops(t, q)
        /\ \A k \in p..(q - 1) : ~SectionStops(t, k)

\* parse_chord_output on the text t: the entries of the chord lines between
\* the progression heading with its rule and the end of the section, or
\* the empty list if the heading is not found.
parse_chord_output(t) ==
    LET heads == {p \in 1..Len(t) : t[p] = ProgressionHeading}
    IN  IF heads = {} THEN << >>
        ELSE LET h == CHOOSE p \in heads : \A q \in heads : p <= q
                 r1 == RunEnd(t, h + 1, Whitespace)
                 r2 == RunEnd(t, r1, {"-"})
                 g1 == RunEnd(t, r2, Whitespace)
                 g2 == SectionEnd(t, g1)
                 text == SubSeq(t, g1, g2 - 1)
                 starts == {q \in 1..Len(text) :
                               MatchChordPattern(text, q).ok}
             IN  IF r2 > r1
                 THEN FindChords(text, starts, 1, << >>)
                 ELSE << >>

\* The sequences of labels whose results are written: every identifier on
\* its own, and the sequences over a few identifiers with and without '#'.
FileAlphabet == {"C", "Am", "C#", "F#m"}

FileLabelSeqs ==
    {<<c>> : c \in ChordNames} \cup SeqsUpTo(FileAlphabet \cup {NA}, MaxFileLen)

InitFile ==
    /\ pc = "start"
    /\ chords \in FileLabelSeqs
    /\ window_size = 5
    /\ hop_length = 512
    /\ sr = 22050
    /\ smoothed_chords = << >>
    /\ seg_chords = << >>
    /\ progression = << >>
    /\ chord_counts = << >>
    /\ FrameIdle
    /\ ObjectIdle

\* save_results_to_file(results, ...)
SaveResults ==
    /\ pc = "done"
    /\ output_file' = ProgressionSection(progression, sr)
    /\ pc' = "saved"
    /\ UNCHANGED <<parsed_chords, self_chord_templates>>
    /\ UNCHANGED labelVars
    /\ UNCHANGED frameVars

\* chords = playback.parse_chord_output(file_path)
ParseChordOutput ==
    /\ pc = "saved"
    /\ parsed_chords' = parse_chord_output(output_file)
    /\ pc' = "parsed"
    /\ UNCHANGED <<output_file, self_chord_templates>>
    /\ UNCHANGED labelVars
    /\ UNCHANGED frameVars

NextFile ==
    \/ Smooth
    \/ GetProgression
    \/ CountChords
    \/ SaveResults
    \/ ParseChordOutput

SpecFile == InitFile /\ [][NextFile]_vars

-----------------------------------------------------------------------------
(* Definitions the properties are stated with.  They describe results by   *)
(* sets and quantifiers, not by the loops above.                            *)

\* The Python indices of lst.
Indices(lst) == 0..(Len(lst) - 1)

\* The indices of the frames of lst that carry a chord.
ChordIdx(lst) == {i \in Indices(lst) : lst[i + 1] # NA}

\* The last frame before i that carries a chord, or -1.
PrevChordIdx(lst, i) ==
    LET before == {j \in ChordIdx(lst) : j < i}
    IN  IF before = {} THEN -1
        ELSE CHOOSE j \in before : \A k \in before : k <= j

\* The frames that begin a run: a chord differing from the chord before it,
\* 'N/A' frames left out.
RunStarts(lst) ==
    {i \in ChordIdx(lst) :
        \/ PrevChordIdx(lst, i) = -1
        \/ lst[PrevChordIdx(lst, i) + 1] # lst[i + 1]}

\* The m-th smallest element of a finite set of integers.
Nth(S, m) == CHOOSE x \in S : Cardinality({y \in S : y < x}) = m - 1

segmentedStates == {"segmented", "segmented_raw"}

\* C1's example: frame 3 is 'N/A'.
ExampleSeq == <<"C", "C", "C", NA, "C", "G", "G">>

\* C1: the segments of get_chord_progression are the runs of the input
\* with its 'N/A' frames left out: as many segments as runs, segment m
\* carrying the chord of the m-th run and starting at that run's first
\* frame times the frame duration; and the example sequence, at a frame
\* duration of 0.1 s, gives C over frames [0, 5) and G over frames [5, 7).
C1_UnknownTransparent ==
    pc \in segmentedStates =>
        LET starts == RunStarts(seg_chords)
        IN  /\ Len(progression) = Cardinality(starts)
            /\ \A m \in 1..Len(progression) :
                  /\ progression[m].chord = seg_chords[Nth(starts, m) + 1]
                  /\ progression[m].start_time = Nth(starts, m) * hop_length
            /\ (seg_chords = ExampleSeq /\ hop_length = 1 /\ sr = 10) =>
                  progression =
                      <<[chord |-> "C", start_time |-> 0, end_time |-> 5,
                         duration |-> 5],
                        [chord |-> "G", start_time |-> 5, end_time |-> 7,
                         duration |-> 2]>>

C1_Witness ==
    /\ pc = "segmented_raw"
    /\ seg_chords = ExampleSeq
    /\ hop_length = 1
    /\ sr = 10
    /\ Len(progression) = 2
    /\ progression[1].end_time = 5

\* C2: smooth_chord_progression returns as many labels as it was given.
C2_SmoothKeepsLength ==
    pc = "smoothed" => Len(smoothed_chords) = Len(chords)

C2_Witness ==
    /\ pc = "smoothed"
    /\ Len(chords) = 4
    /\ window_size = 5
    /\ smoothed_chords # chords
    /\ Len(smoothed_chords) = 4

\* The indices of the window of i, clipped to the sequence.
WindowIdx(lst, w, i) ==
    {j \in Indices(lst) : i - (w \div 2) <= j /\ j <= i + (w \div 2)}

\* The majority vote of the window of i: 'N/A' when no frame of the window
\* carries a chord, else, of the chords with the most votes, the one met
\* first from the left.
MajorityVote(lst, w, i) ==
    LET win == WindowIdx(lst, w, i)
        votes == [c \in {lst[j + 1] : j \in win} \ {NA} |->
                     Cardinality({j \in win : lst[j + 1] = c})]
        leaders == {c \in DOMAIN votes :
                       \A d \in DOMAIN votes : votes[d] <= votes[c]}
        first == CHOOSE j \in win :
                     /\ lst[j + 1] \in leaders
                     /\ \A k \in win : lst[k + 1] \in leaders => j <= k
    IN  IF leaders = {} THEN NA ELSE lst[first + 1]

\* C3: every label of the smoothed sequence is the majority vote of its
\* clipped window, a tie going to the chord met first in the window.
C3_SmoothIsMajorityVote ==
    pc = "smoothed" =>
        \A i \in Indices(chords) :
            /\ i + 1 \in DOMAIN smoothed_chords
            /\ smoothed_chords[i + 1] = MajorityVote(chords, window_size, i)

C3_Witness ==
    /\ pc = "smoothed"
    /\ chords = <<"G", "C", "Am", NA>>
    /\ window_size = 3
    /\ smoothed_chords = <<"G", "G", "C", "Am">>

\* C8: laying the segments back over the frames gives every frame that
\* carries a chord exactly one segment, and that segment has its chord.
C8_RoundTrip ==
    pc \in segmentedStates =>
        \A i \in ChordIdx(seg_chords) :
            LET covering == {m \in 1..Len(progression) :
                                /\ progression[m].start_time <= i * hop_length
                                /\ i * hop_length < progression[m].end_time}
            IN  /\ Cardinality(covering) = 1
                /\ \A m \in covering :
                      progression[m].chord = seg_chords[i + 1]

C8_Witness ==
    /\ pc = "segmented"
    /\ window_size = 3
    /\ chords = <<NA, NA, "C", NA, NA>>
    /\ seg_chords = <<NA, "C", "C", "C", NA>>
    /\ hop_length = 512
    /\ progression = <<[chord |-> "C", start_time |-> 512,
                        end_time |-> 2560, duration |-> 2048]>>

\* The keys of a counter.
CounterKeys(cnt) == {cnt[k].key : k \in 1..Len(cnt)}

\* C9: the statistics have one item for each chord that occurs in the
\* sequence, its count the number of frames carrying that chord, and no
\* item for 'N/A'; C, C, N/A, G gives C: 2 and G: 1.
C9_StatisticsCountFrames ==
    pc = "done" =>
        /\ CounterKeys(chord_counts) =
               {smoothed_chords[i + 1] : i \in ChordIdx(smoothed_chords)}
        /\ NA \notin CounterKeys(chord_counts)
        /\ \A k, m \in 1..Len(chord_counts) :
              chord_counts[k].key = chord_counts[m].key => k = m
        /\ \A k \in 1..Len(chord_counts) :
              chord_counts[k].count =
                  Cardinality({i \in Indices(smoothed_chords) :
                      smoothed_chords[i + 1] = chord_counts[k].key})
        /\ smoothed_chords = <<"C", "C", NA, "G">> =>
              chord_counts = <<[key |-> "C", count |-> 2],
                               [key |-> "G", count |-> 1]>>

C9_Witness ==
    /\ pc = "done"
    /\ smoothed_chords = <<"C", "C", NA, "G">>
    /\ Len(chord_counts) = 2

\* Every clipped window of lst holds one distinct label.
LocallyUnanimous(lst, w) ==
    \A i \in Indices(lst) :
        \A j, k \in WindowIdx(lst, w, i) : lst[j + 1] = lst[k + 1]

\* C10: smooth_chord_progression returns a locally unanimous sequence
\* unchanged.
C10_SmoothFixesUnanimous ==
    (pc = "smoothed" /\ LocallyUnanimous(chords, window_size)) =>
        smoothed_chords = chords

C10_Witness ==
    /\ pc = "smoothed"
    /\ window_size = 5
    /\ chords = <<"G", "G", "G", "G">>
    /\ LocallyUnanimous(chords, window_size)
    /\ smoothed_chords = chords

-----------------------------------------------------------------------------
(* Properties of the classifier. *)

\* The correlation of every enumerated column, after the normalisation
\* step, with every template.
Scores ==
    [f \in FrameSet |->
        [c \in ChordNames |->
            corrcoef(NormalizeFrame(f), chord_templates[c])]]

\* n * |n|: the square of n with the sign of n.
SignedSquare(n) == IF n >= 0 THEN n * n ELSE -(n * n)

\* The number a is greater than the number b, for scores n / sqrt(d2).
Greater(a, b) == SignedSquare(a.n) * b.d2 > SignedSquare(b.n) * a.d2

\* The score is 1.
IsOne(a) == a.n > 0 /\ a.n * a.n = a.d2

\* The score is greater than 1/2.
AboveHalf(a) == a.n > 0 /\ 4 * a.n * a.n > a.d2

\* For every enumerated column, the templates whose correlation with it
\* is a number.
Finite == [f \in FrameSet |-> {c \in ChordNames : ~Scores[f][c].nan}]

\* For every enumerated column, the templates that attain the greatest
\* correlation with it.
Tops ==
    [f \in FrameSet |->
        {c \in Finite[f] :
            \A t \in Finite[f] : ~Greater(Scores[f][t], Scores[f][c])}]

\* For every enumerated column, whether some correlation with it is
\* greater than 1/2.
SomeAboveHalf ==
    [f \in FrameSet |-> \E c \in Finite[f] : AboveHalf(Scores[f][c])]

\* The place of a template in the iteration order.
OrderOf(c) == CHOOSE k \in 1..Len(TemplateOrder) : TemplateOrder[k] = c

\* A column was classified in this state.
FrameDone == pc = "detect" /\ frame_idx > 0

\* The label appended for the column read last.
LastLabel == detected_chords[frame_idx]

\* C4: a column equal to a template's mask, as it is or scaled to sum 1,
\* is labelled with that template: its correlation with it is 1 and
\* greater than its correlation with each other template.
C4_TemplateClassifiesAsItself ==
    (FrameDone /\ frame_in \in MaskFrames) =>
        \A c \in ChordNames :
            chord_templates[c] = frame_in.num =>
                /\ LastLabel = c
                /\ best_chord = c
                /\ IsOne(best_score)
                /\ IsOne(Scores[frame_in][c])
                /\ \A t \in ChordNames \ {c} :
                      /\ ~Scores[frame_in][t].nan
                      /\ Greater(Scores[frame_in][c], Scores[frame_in][t])

C4_Witness ==
    /\ FrameDone
    /\ frame_in = [num |-> chord_templates["F#m"], den |-> 3]
    /\ frame_chroma.den = 3
    /\ LastLabel = "F#m"
    /\ IsOne(best_score)

\* C5 as stated: when several templates share the greatest correlation
\* and a chord is emitted, it is the one evaluated last among them.
C5_LaterTemplateWinsTie ==
    (FrameDone /\ Cardinality(Tops[frame_in]) >= 2 /\ LastLabel # NA) =>
        /\ LastLabel \in Tops[frame_in]
        /\ \A t \in Tops[frame_in] : OrderOf(t) <= OrderOf(LastLabel)

\* C5, amended: when several templates share the greatest correlation and
\* a chord is emitted, it is the one evaluated first among them; a later
\* template of equal score does not replace the running best.
C5_EarlierTemplateWinsTie ==
    (FrameDone /\ Cardinality(Tops[frame_in]) >= 2 /\ LastLabel # NA) =>
        /\ LastLabel \in Tops[frame_in]
        /\ best_chord = LastLabel
        /\ \A t \in Tops[frame_in] : OrderOf(LastLabel) <= OrderOf(t)

\* Equal energy on the pitch classes C and E only.
C5_Witness ==
    /\ FrameDone
    /\ frame_in = NoteFrame({0, 4})
    /\ Tops[frame_in] = {"C", "Am"}
    /\ LastLabel = "C"

\* C6: a chord is emitted exactly when some correlation that is a number
\* is greater than 1/2, and the chord emitted attains the greatest
\* correlation; otherwise the label is 'N/A'.
C6_EmitsIffAboveHalf ==
    FrameDone =>
        /\ LastLabel # NA <=> SomeAboveHalf[frame_in]
        /\ LastLabel # NA => LastLabel \in Tops[frame_in]
        /\ LastLabel \in ChordNames \cup {NA}

\* A column whose greatest correlation is exactly 1/2.
C6_Witness ==
    /\ FrameDone
    /\ frame_in.num = <<1, 0, 1, 0, 2, 3, 0, 3, 0, 0, 2, 0>>
    /\ best_chord = "C"
    /\ 4 * best_score.n * best_score.n = best_score.d2
    /\ LastLabel = NA

\* C7: a constant column is labelled 'N/A' with no template considered,
\* every correlation being undefined; an all-zero column is used as it is;
\* no column is divided by 0; and there is one label for each column read.
C7_DegenerateFrameIsUnknown ==
    /\ pc \in {"detect", "detected"} =>
          /\ Len(detected_chords) = frame_idx
          /\ frame_chroma.den > 0
    /\ pc = "detected" => Len(detected_chords) = n_frames
    /\ (FrameDone /\ frame_in \in ConstantFrames) =>
          /\ Sum(frame_in.num) = 0 => frame_chroma = frame_in
          /\ \A c \in ChordNames : Scores[frame_in][c].nan
          /\ best_chord = None
          /\ LastLabel = NA

C7_Witness ==
    /\ pc = "detected"
    /\ n_frames = 2
    /\ frame_in = [num |-> <<0, 0, 0, 0, 0, 0, 0, 0, 0, 0, 0, 0>>, den |-> 1]
    /\ frame_chroma = frame_in
    /\ detected_chords = <<"C", NA>>

-----------------------------------------------------------------------------
(* Properties of get_chord_progression on whole sequences. *)

\* C11: get_chord_progression on a sequence that holds nothing but 'N/A',
\* of any length including 0, returns an empty list (and takes no branch
\* that could fail: no entry is built).
C11_AllUnknownGivesNoSegment ==
    (pc \in segmentedStates /\ ChordIdx(seg_chords) = {}) =>
        progression = << >>

C11_Witness ==
    /\ pc = "segmented_raw"
    /\ seg_chords = <<NA, NA, NA>>
    /\ progression = << >>

\* C13: every entry of the progression carries a chord that occurs in the
\* input and is never 'N/A', its duration is end_time - start_time, and the
\* duration is not negative.
C13_SegmentsWellFormed ==
    pc \in segmentedStates =>
        \A m \in 1..Len(progression) :
            /\ progression[m].chord \in
                   {seg_chords[i + 1] : i \in ChordIdx(seg_chords)}
            /\ progression[m].chord # NA
            /\ progression[m].duration =
                   progression[m].end_time - progression[m].start_time
            /\ progression[m].duration >= 0

C13_Witness ==
    /\ pc = "segmented"
    /\ seg_chords = <<"G", NA, "G", "Am", "Am">>
    /\ hop_length = 512
    /\ Len(progression) = 2
    /\ progression[2] = [chord |-> "Am", start_time |-> 1536,
                         end_time |-> 2560, duration |-> 1024]

\* The first frame of lst that carries a chord.
FirstChordIdx(lst) == CHOOSE i \in ChordIdx(lst) : \A j \in ChordIdx(lst) : i <= j

\* C17: the entries tile the time line: the first starts at the first frame
\* that carries a chord, each ends where the next starts, the start times
\* increase strictly, and the last ends at len(chords) * frame_duration, so
\* leading 'N/A' frames are covered by no entry and trailing ones by the
\* last.
C17_SegmentsTile ==
    (pc \in segmentedStates /\ progression # << >>) =>
        /\ ChordIdx(seg_chords) # {}
        /\ progression[1].start_time =
               FirstChordIdx(seg_chords) * hop_length
        /\ \A m \in 1..(Len(progression) - 1) :
              /\ progression[m].end_time = progression[m + 1].start_time
              /\ progression[m].start_time < progression[m + 1].start_time
        /\ progression[Len(progression)].end_time =
               Len(seg_chords) * hop_length

C17_Witness ==
    /\ pc = "segmented_raw"
    /\ seg_chords = <<NA, "C", "G", NA, NA>>
    /\ hop_length = 1
    /\ progression = <<[chord |-> "C", start_time |-> 1, end_time |-> 2,
                        duration |-> 1],
                      [chord |-> "G", start_time |-> 2, end_time |-> 5,
                        duration |-> 3]>>

-----------------------------------------------------------------------------
(* Properties of the whole analysis. *)

analyzedStates == {"smoothed", "segmented", "done"}

\* C12: the analysis of a matrix with no column gives an empty list of
\* labels, an empty smoothed list, an empty progression and an empty
\* counter, every step running to its end.
C12_EmptyMatrixGivesEmptyResult ==
    n_frames = 0 =>
        /\ detected_chords = << >>
        /\ pc \in analyzedStates => chords = << >> /\ smoothed_chords = << >>
        /\ progression = << >>
        /\ chord_counts = << >>

C12_Witness ==
    /\ pc = "done"
    /\ n_frames = 0
    /\ window_size = 5
    /\ detected_chords = << >>
    /\ smoothed_chords = << >>
    /\ progression = << >>
    /\ chord_counts = << >>

\* C14: ten columns of which the first five are labelled C and the last
\* five G: smoothing with window_size 5 returns the labels unchanged, and
\* the progression is C over frames [0, 5) and G over frames [5, 10), which
\* at 512 / 22050 s a frame is 0.000 - 0.116 s and 0.116 - 0.232 s.
C14_TwoChordScenario ==
    (detected_chords = ScenarioLabels /\ pc \in analyzedStates) =>
        /\ window_size = 5
        /\ smoothed_chords = ScenarioLabels
        /\ pc # "smoothed" =>
              /\ progression =
                     <<[chord |-> "C", start_time |-> 0,
                        end_time |-> 5 * hop_length,
                        duration |-> 5 * hop_length],
                       [chord |-> "G", start_time |-> 5 * hop_length,
                        end_time |-> 10 * hop_length,
                        duration |-> 5 * hop_length]>>
              /\ (progression[1].end_time * 1000) \div sr = 116
              /\ (progression[2].end_time * 1000) \div sr = 232

C14_Witness ==
    /\ pc = "segmented"
    /\ n_frames = 10
    /\ detected_chords = ScenarioLabels
    /\ smoothed_chords = ScenarioLabels
    /\ Len(progression) = 2
    /\ progression[1] = [chord |-> "C", start_time |-> 0, end_time |-> 2560,
                         duration |-> 2560]
    /\ progression[2] = [chord |-> "G", start_time |-> 2560,
                         end_time |-> 5120, duration |-> 2560]

\* The names of the pitch classes 0..11.
NoteNames ==
    <<"C", "C#", "D", "D#", "E", "F", "F#", "G", "G#", "A", "A#", "B">>

\* The identifier of the major and of the minor chord on pitch class r.
MajorName(r) == NoteNames[r + 1]
MinorName(r) == NoteNames[r + 1] \o "m"

\* The 0/1 mask of the triad on root r whose third lies `third` semitones
\* above the root.
TriadMask(r, third) ==
    [k \in 1..NPitch |->
        IF (k - 1) \in {r, (r + third) % NPitch, (r + 7) % NPitch}
        THEN 1 ELSE 0]

\* The table of the 24 triads: the major and the minor chord on each of
\* the 12 roots.
TriadTable ==
    LET roots == 0..(NPitch - 1)
        names == {MajorName(r) : r \in roots} \cup {MinorName(r) : r \in roots}
    IN  [c \in names |->
            LET r == CHOOSE x \in roots : c \in {MajorName(x), MinorName(x)}
            IN  TriadMask(r, IF c = MajorName(r) THEN 4 ELSE 3)]

\* TriadTable has 24 identifiers, 12 major and 12 minor, and each of its
\* masks has 12 elements that are 0 or 1, three of them 1.
TriadTableShape ==
    LET roots == 0..(NPitch - 1)
    IN  /\ Cardinality({MajorName(r) : r \in roots}) = 12
        /\ Cardinality({MinorName(r) : r \in roots}) = 12
        /\ Cardinality(DOMAIN TriadTable) = 24
        /\ \A c \in DOMAIN TriadTable :
              /\ Len(TriadTable[c]) = 12
              /\ \A k \in 1..12 : TriadTable[c][k] \in {0, 1}
              /\ Cardinality({k \in 1..12 : TriadTable[c][k] = 1}) = 3

\* C15: in every state of the analysis self.chord_templates holds 24
\* identifiers, the major and the minor chord of each of the 12 roots, and
\* each mask has 12 elements that are 0 or 1, its three ones at root,
\* root + 4 and root + 7 (mod 12) for a major chord and at root, root + 3
\* and root + 7 for a minor one; so no step changes the table.
C15_TemplateTableFixed ==
    /\ self_chord_templates = TriadTable
    /\ TriadTableShape

C15_Witness ==
    /\ pc = "done"
    /\ n_frames = 2
    /\ progression # << >>
    /\ self_chord_templates["F#m"] = <<0, 1, 0, 0, 0, 0, 1, 0, 0, 1, 0, 0>>
    /\ self_chord_templates["A#"] = <<0, 0, 1, 0, 0, 1, 0, 0, 0, 0, 1, 0>>

RECURSIVE CounterTotalFrom(_, _)
CounterTotalFrom(cnt, k) ==
    IF k > Len(cnt) THEN 0 ELSE cnt[k].count + CounterTotalFrom(cnt, k + 1)

\* The sum of the counts of a counter.
CounterTotal(cnt) == CounterTotalFrom(cnt, 1)

\* C18: in the result of the analysis the chords counted are the chords of
\* the progression, and the counts add up to the number of frames of the
\* smoothed list that carry a chord.
C18_StatisticsMatchProgression ==
    pc = "done" =>
        /\ CounterKeys(chord_counts) =
               {progression[m].chord : m \in 1..Len(progression)}
        /\ CounterTotal(chord_counts) =
               Cardinality(ChordIdx(smoothed_chords))

C18_Witness ==
    /\ pc = "done"
    /\ detected_chords = <<"C", NA>>
    /\ smoothed_chords = <<"C", "C">>
    /\ Len(progression) = 1
    /\ chord_counts = <<[key |-> "C", count |-> 2]>>

-----------------------------------------------------------------------------
(* Writing the progression and reading it back. *)

\* C16: the list parse_chord_output reads from the file that
\* save_results_to_file wrote has as many entries as the progression
\* written, in the same order, each with the chord identifier of the entry
\* it was written from, whichever of the 24 identifiers that is.
C16_FileRoundTrip ==
    pc = "parsed" =>
        /\ Len(parsed_chords) = Len(progression)
        /\ \A m \in 1..Len(parsed_chords) :
              parsed_chords[m].chord = progression[m].chord

=============================================================================
